---------------------------- MODULE Spec2Model ----------------------------
(***************************************************************************)
(* Model of package symmetric (symmetric/symmetric.go): a 32-byte AES-GCM  *)
(* key wrapper with Encrypt/Decrypt and a multibase text form.             *)
(*                                                                         *)
(* Byte slices are Go slices: a header (backing array, length) over a heap *)
(* of backing arrays, so that two headers over one array alias.  A byte is *)
(* a number in 0..255, a byte string a sequence of bytes, a Go string a    *)
(* sequence of one-character strings.                                      *)
(*                                                                         *)
(* The three collaborators the package calls are modelled by what they     *)
(* compute, at reduced strength:                                           *)
(*   crypto/rand     a nondeterministic choice of the bytes read, or an    *)
(*                   error;                                                *)
(*   crypto/aes+gcm  a counter-mode key stream and a 16-byte tag over      *)
(*                   (key, nonce, body); the tag is collision-free over    *)
(*                   the model's key alphabet (key bytes below 16), which  *)
(*                   stands for AES-GCM's computational guarantee;         *)
(*   go-multibase    prefix + base16 / base32 text, computed from the bits *)
(*                   of the bytes.                                         *)
(***************************************************************************)
EXTENDS Integers, Sequences, FiniteSets, TLC

\* symmetric.go:14  NonceBytes is the length of GCM nonce.
NonceBytes == 12

\* symmetric.go:17  KeyBytes is the length of GCM key.
KeyBytes == 32

\* cipher.NewGCM's standard tag length (gcmTagSize), appended by Seal.
TagBytes == 16

\* aes.BlockSize, the block length of the counter mode under GCM.
BlockBytes == 16

(***************************************************************************)
(* Bounds of the model.                                                    *)
(***************************************************************************)
\* Key, nonce and caller-written bytes are drawn from 0..MaxByte.
MaxByte == 1
\* Key objects the callers hold on to.
MaxKeys == 1
\* Slice headers the callers hold.
MaxSlices == 1
\* Blobs the callers keep.
MaxBlobs == 2

(***************************************************************************)
(* Errors and optional values.                                             *)
(***************************************************************************)
NoErr == "nil"
\* symmetric.go:21
cipherTextError == "malformed cipher text"
\* symmetric.go:22
invalidKeyError == "invalid key"
\* The errors of the collaborators.
randError == "rand: read failed"
authError == "cipher: message authentication failed"
keySizeError == "crypto/aes: invalid key size"
encodingError == "multibase: decode failed"
unknownBaseError == "multibase: unsupported encoding"

\* A Go nil result, and a present one.
Nil == <<>>
Some(x) == <<x>>
Get(o) == o[1]

(***************************************************************************)
(* Bytes.                                                                  *)
(***************************************************************************)
Byte == 0..255

Fill(n, c) == [i \in 1..n |-> c]

Pow2(n) == IF n = 0 THEN 1 ELSE IF n = 1 THEN 2 ELSE IF n = 2 THEN 4
           ELSE IF n = 3 THEN 8 ELSE IF n = 4 THEN 16 ELSE IF n = 5 THEN 32
           ELSE IF n = 6 THEN 64 ELSE 128

\* Bit b (0 = least significant) of byte x.
BitOf(x, b) == (x \div Pow2(b)) % 2

\* s with bit b of its byte at position pos (1-based) flipped.
FlipBit(s, pos, b) ==
    [s EXCEPT ![pos] = IF BitOf(s[pos], b) = 1 THEN s[pos] - Pow2(b) ELSE s[pos] + Pow2(b)]

\* Go's s[:n] and s[n:] on a byte string value.
Take(s, n) == SubSeq(s, 1, n)
Drop(s, n) == SubSeq(s, n + 1, Len(s))

(***************************************************************************)
(* crypto/rand.Read(buf): fills buf, or fails.                             *)
(***************************************************************************)
RandRead(n) ==
    {[ok |-> FALSE, bytes |-> Fill(n, 0)]}
        \cup {[ok |-> TRUE, bytes |-> Fill(n, c)] : c \in 0..MaxByte}

(***************************************************************************)
(* crypto/aes and crypto/cipher (GCM).                                     *)
(***************************************************************************)
\* aes.NewCipher(key): a block for a 16, 24 or 32 byte key, else KeySizeError.
NewCipher(key) ==
    IF Len(key) \in {16, 24, 32}
    THEN [block |-> Some(key), err |-> NoErr]
    ELSE [block |-> Nil, err |-> keySizeError]

\* cipher.NewGCM(block): never fails on an AES block.
NewGCM(block) == [aead |-> Some(block), err |-> NoErr]

\* The key schedule as one block of bytes.
KeySched(key) ==
    [j \in 1..BlockBytes |->
        ((IF j <= Len(key) THEN key[j] ELSE 0)
          + 16 * (IF j + BlockBytes <= Len(key) THEN key[j + BlockBytes] ELSE 0)) % 256]

\* The block cipher applied to the counter block nonce || ctr.
CounterBlock(key, nonce, ctr) ==
    LET ks == KeySched(key)
    IN  [j \in 1..BlockBytes |->
            (ks[j] + (IF j <= Len(nonce) THEN nonce[j] ELSE 0) + 31 * ctr) % 256]

\* Byte i of the key stream: counter blocks 2, 3, ... laid end to end.
KeyStream(key, nonce, i) ==
    CounterBlock(key, nonce, 2 + ((i - 1) \div BlockBytes))[((i - 1) % BlockBytes) + 1]

\* Counter mode: the key stream is added to the plaintext byte by byte
\* (addition modulo 256 stands for GCM's exclusive or) ...
CtrSeal(key, nonce, plain) ==
    [i \in 1..Len(plain) |-> (plain[i] + KeyStream(key, nonce, i)) % 256]

\* ... and taken off the body again.
CtrOpen(key, nonce, body) ==
    [i \in 1..Len(body) |-> (body[i] + 256 - KeyStream(key, nonce, i)) % 256]

\* The hash of the body: every byte weighs an odd factor, the length is mixed in.
GHash(body) ==
    LET nb == (Len(body) + BlockBytes - 1) \div BlockBytes
    IN  [j \in 1..TagBytes |->
            LET term(b) == IF BlockBytes * b + j <= Len(body)
                           THEN (2 * b + 1) * body[BlockBytes * b + j]
                           ELSE 0
                acc[b \in 0..nb] == IF b = 0 THEN 0 ELSE acc[b - 1] + term(b - 1)
            IN  (acc[nb] + (IF j = TagBytes THEN Len(body) ELSE 0)) % 256]

\* The tag: the hash of the body masked with counter block 1.
Tag(key, nonce, body) ==
    LET m == CounterBlock(key, nonce, 1)
        g == GHash(body)
    IN  [j \in 1..TagBytes |-> (m[j] + g[j]) % 256]

\* aesgcm.Seal(nil, nonce, plaintext, nil): ciphertext || tag.
Seal(key, nonce, plaintext) ==
    LET body == CtrSeal(key, nonce, plaintext)
    IN  body \o Tag(key, nonce, body)

\* aesgcm.Open(nil, nonce, sealed, nil): the plaintext, or the authentication
\* error when sealed is shorter than a tag or the tag does not verify.
Open(key, nonce, sealed) ==
    IF Len(sealed) < TagBytes
    THEN [plain |-> Nil, err |-> authError]
    ELSE LET body == Take(sealed, Len(sealed) - TagBytes)
             tag  == Drop(sealed, Len(sealed) - TagBytes)
         IN  IF tag = Tag(key, nonce, body)
             THEN [plain |-> Some(CtrOpen(key, nonce, body)), err |-> NoErr]
             ELSE [plain |-> Nil, err |-> authError]

(***************************************************************************)
(* github.com/multiformats/go-multibase: a string is the prefix character  *)
(* of its base followed by the payload in that base's alphabet, unpadded.  *)
(* An Encoding is its prefix character, as in the library.  The registry   *)
(* modelled holds four of the library's bases.                             *)
(***************************************************************************)
Base16 == "f"
Base16Upper == "F"
Base32 == "b"
Base32Upper == "B"

Registered == {Base16, Base16Upper, Base32, Base32Upper}

AlphaBase16 ==
    <<"0", "1", "2", "3", "4", "5", "6", "7", "8", "9", "a", "b", "c", "d",
      "e", "f">>

AlphaBase16Upper ==
    <<"0", "1", "2", "3", "4", "5", "6", "7", "8", "9", "A", "B", "C", "D",
      "E", "F">>

AlphaBase32 ==
    <<"a", "b", "c", "d", "e", "f", "g", "h", "i", "j", "k", "l", "m", "n",
      "o", "p", "q", "r", "s", "t", "u", "v", "w", "x", "y", "z", "2", "3",
      "4", "5", "6", "7">>

AlphaBase32Upper ==
    <<"A", "B", "C", "D", "E", "F", "G", "H", "I", "J", "K", "L", "M", "N",
      "O", "P", "Q", "R", "S", "T", "U", "V", "W", "X", "Y", "Z", "2", "3",
      "4", "5", "6", "7">>

\* The alphabet of a registered base, and the bits one character carries.
Alphabet(base) ==
    CASE base = Base16 -> AlphaBase16
      [] base = Base16Upper -> AlphaBase16Upper
      [] base = Base32 -> AlphaBase32
      [] base = Base32Upper -> AlphaBase32Upper

CharBits(base) == IF base \in {Base16, Base16Upper} THEN 4 ELSE 5

\* The value of each character of an alphabet.
ValuesOf(alpha) ==
    [ch \in {alpha[i] : i \in 1..Len(alpha)} |->
        (CHOOSE i \in 1..Len(alpha) : alpha[i] = ch) - 1]

ValBase16 == ValuesOf(AlphaBase16)
ValBase16Upper == ValuesOf(AlphaBase16Upper)
ValBase32 == ValuesOf(AlphaBase32)
ValBase32Upper == ValuesOf(AlphaBase32Upper)

CharValues(base) ==
    CASE base = Base16 -> ValBase16
      [] base = Base16Upper -> ValBase16Upper
      [] base = Base32 -> ValBase32
      [] base = Base32Upper -> ValBase32Upper

\* 2^n for the shifts of the codec.
Shift(n) == IF n < 8 THEN Pow2(n) ELSE 256 * Pow2(n - 8)

\* The payload of data in an alphabet of w bits per character: character c
\* (from 0) is bits w*c .. w*c + w - 1 of data, read through the two bytes
\* that hold them; bits past the end are 0.
EncodeBits(data, alpha, w) ==
    LET nchars == (8 * Len(data) + w - 1) \div w
        at(q) == IF q <= Len(data) THEN data[q] ELSE 0
        val(c) == LET q == ((w * c) \div 8) + 1
                      r == (w * c) % 8
                  IN  ((256 * at(q) + at(q + 1)) \div Shift(16 - r - w)) % Shift(w)
    IN  [c \in 1..nchars |-> alpha[val(c - 1) + 1]]

\* The bytes of a payload: byte k (from 0) is bits 8*k .. 8*k + 7 of the
\* characters' values, read through the three characters that hold them.  An
\* error on a character outside the alphabet or a length no encoding has.
DecodeBits(text, vals, w) ==
    IF \E i \in 1..Len(text) : text[i] \notin DOMAIN vals
    THEN [bytes |-> <<>>, err |-> encodingError]
    ELSE IF (Len(text) * w) % 8 >= w
    THEN [bytes |-> <<>>, err |-> encodingError]
    ELSE LET nbytes == (Len(text) * w) \div 8
             at(q) == IF q <= Len(text) THEN vals[text[q]] ELSE 0
             byte(k) == LET q == ((8 * k) \div w) + 1
                            r == (8 * k) % w
                        IN  ((Shift(2 * w) * at(q) + Shift(w) * at(q + 1) + at(q + 2))
                                \div Shift(3 * w - r - 8)) % 256
         IN  [bytes |-> [k \in 1..nbytes |-> byte(k - 1)], err |-> NoErr]

\* mbase.Encode(base, data)
MbEncode(base, data) ==
    IF base \notin Registered
    THEN [str |-> <<>>, err |-> unknownBaseError]
    ELSE [str |-> <<base>> \o EncodeBits(data, Alphabet(base), CharBits(base)),
          err |-> NoErr]

\* mbase.Decode(str): the base named by the prefix and the decoded bytes.
MbDecode(str) ==
    IF Len(str) = 0
    THEN [base |-> "", bytes |-> <<>>, err |-> encodingError]
    ELSE IF str[1] \notin Registered
    THEN [base |-> "", bytes |-> <<>>, err |-> unknownBaseError]
    ELSE LET d == DecodeBits(Drop(str, 1), CharValues(str[1]), CharBits(str[1]))
         IN  [base |-> str[1], bytes |-> d.bytes, err |-> d.err]

(***************************************************************************)
(* Go slices and the Key type.                                             *)
(***************************************************************************)
\* A slice header over backing array arr of heap h, with its length.
Slice(a, n) == [arr |-> a, len |-> n]

\* The bytes a slice header reads from heap h.
Deref(h, s) == Take(h[s.arr], s.len)

\* The capacity of a slice: the length of its backing array.  Reslicing past
\* it (s[:n] with n > cap) panics.
Cap(h, s) == Len(h[s.arr])

\* make([]byte, n) followed by the filling of it: a new backing array.
Alloc(h, bytes) == Append(h, bytes)

\* symmetric.go:26  type Key struct { raw []byte }
MkKey(raw) == [raw |-> raw]

(***************************************************************************)
(* The package's functions.  Each takes the heap where it reads or         *)
(* allocates, and returns what the Go function returns together with the   *)
(* calls it made to its collaborators.                                     *)
(***************************************************************************)
\* A fault NewRandom does not have: the Key handed back beside the error.
NewRandomPartial(h, rd) ==
    [heap |-> Alloc(h, rd.bytes),
     key |-> Some(MkKey(Slice(Len(h) + 1, KeyBytes))),
     err |-> IF rd.ok THEN NoErr ELSE randError, calls |-> <<"rand.Read">>]

\* func NewRandom() (*Key, error); rd is what rand.Read(raw) did.
NewRandom(h, rd) ==
    IF ~rd.ok
    THEN [heap |-> h, key |-> Nil, err |-> randError, calls |-> <<"rand.Read">>]
    ELSE [heap |-> Alloc(h, rd.bytes),
          key |-> Some(MkKey(Slice(Len(h) + 1, KeyBytes))),
          err |-> NoErr, calls |-> <<"rand.Read">>]

\* func New() *Key: NewRandom, panicking on its error.
New(h, rd) ==
    LET r == NewRandom(h, rd)
    IN  IF r.err # NoErr
        THEN [heap |-> r.heap, key |-> Nil, panicked |-> TRUE, calls |-> r.calls]
        ELSE [heap |-> r.heap, key |-> r.key, panicked |-> FALSE, calls |-> r.calls]

\* A fault FromBytes does not have: only the shorter slices rejected.
BadKeyLenShortOnly(k) == k.len < KeyBytes

\* symmetric.go:50  the length check of FromBytes: len(k) != KeyBytes.
BadKeyLen(k) == k.len # KeyBytes

\* func FromBytes(k []byte) (*Key, error): the Key keeps the header k itself.
FromBytes(k) ==
    IF BadKeyLen(k)
    THEN [key |-> Nil, err |-> invalidKeyError]
    ELSE [key |-> Some(MkKey(k)), err |-> NoErr]

\* func FromString(k string) (*Key, error): the decoded bytes are a new array,
\* which stays on the heap only when a Key keeps it.
FromString(h, str) ==
    LET d == MbDecode(str)
    IN  IF d.err # NoErr
        THEN [heap |-> h, key |-> Nil, err |-> d.err, calls |-> <<"mbase.Decode">>]
        ELSE LET r == FromBytes(Slice(Len(h) + 1, Len(d.bytes)))
             IN  [heap |-> IF r.err = NoErr THEN Alloc(h, d.bytes) ELSE h,
                  key |-> r.key, err |-> r.err, calls |-> <<"mbase.Decode">>]

\* func (k *Key) Bytes() []byte
Bytes(k) == k.raw

\* func (k *Key) MarshalBinary() ([]byte, error)
MarshalBinary(k) == [val |-> Some(k.raw), err |-> NoErr]

\* A fault String does not have: the upper-case base32 alphabet.
StringBaseUpper == Base32Upper

\* symmetric.go:77  the base String encodes in.
StringBase == Base32

\* func (k *Key) String() string
String(h, k) ==
    LET e == MbEncode(StringBase, Deref(h, k.raw))
    IN  IF e.err # NoErr
        THEN [str |-> Nil, panicked |-> TRUE]
        ELSE [str |-> Some(e.str), panicked |-> FALSE]

\* A fault Encrypt and Decrypt do not have: k.raw[:16], an AES-128 key.
CipherKeyHalf(h, k) == Deref(h, Slice(k.raw.arr, 16))

\* symmetric.go:86, 105  k.raw[:KeyBytes], the key handed to aes.NewCipher.
CipherKey(h, k) == Deref(h, Slice(k.raw.arr, KeyBytes))

\* A fault Encrypt does not have: the nonce left as make returned it.
FreshNonceFixed(rd) == Fill(NonceBytes, 0)

\* symmetric.go:94-97  nonce := make([]byte, NonceBytes), filled by rand.Read.
FreshNonce(rd) == rd.bytes

\* A fault Encrypt does not have: the nonce appended after the ciphertext.
FramedNonceLast(nonce, ciphertext) == ciphertext \o nonce

\* symmetric.go:99  append(nonce[:], ciphertext...)
Framed(nonce, ciphertext) == nonce \o ciphertext

\* A fault Decrypt does not have: the length check off by one.
TooShortOffByOne(ciphertext) == Len(ciphertext) < NonceBytes - 1

\* symmetric.go:113  len(ciphertext) < NonceBytes
TooShort(ciphertext) == Len(ciphertext) < NonceBytes

\* symmetric.go:116  nonce := ciphertext[:NonceBytes]
SplitNonce(ciphertext) == Take(ciphertext, NonceBytes)

\* A fault Decrypt does not have: the sealed part taken one byte early.
SplitSealedOffByOne(ciphertext) == Drop(ciphertext, NonceBytes - 1)

\* symmetric.go:117  ciphertext[NonceBytes:]
SplitSealed(ciphertext) == Drop(ciphertext, NonceBytes)

\* A fault Decrypt does not have: the error of aesgcm.Open dropped.
ReturnOpenedIgnoringErr(o) == [val |-> o.plain, err |-> NoErr]

\* symmetric.go:118-121  what Decrypt returns for the result o of aesgcm.Open.
ReturnOpened(o) ==
    IF o.err # NoErr THEN [val |-> Nil, err |-> o.err] ELSE [val |-> o.plain, err |-> NoErr]

\* func (k *Key) Encrypt(plaintext []byte) ([]byte, error); rd is what
\* rand.Read(nonce) did.
Encrypt(h, k, plaintext, rd) ==
    IF KeyBytes > Cap(h, k.raw)
    THEN [val |-> Nil, err |-> NoErr, panicked |-> TRUE, calls |-> <<>>]
    ELSE
    LET c == NewCipher(CipherKey(h, k))
    IN  IF c.err # NoErr
        THEN [val |-> Nil, err |-> c.err, panicked |-> FALSE,
              calls |-> <<"aes.NewCipher">>]
        ELSE LET g == NewGCM(Get(c.block))
             IN  IF g.err # NoErr
                 THEN [val |-> Nil, err |-> g.err, panicked |-> FALSE,
                       calls |-> <<"aes.NewCipher", "cipher.NewGCM">>]
                 ELSE IF ~rd.ok
                 THEN [val |-> Nil, err |-> randError, panicked |-> FALSE,
                       calls |-> <<"aes.NewCipher", "cipher.NewGCM", "rand.Read">>]
                 ELSE LET nonce == FreshNonce(rd)
                          ciphertext == Seal(Get(g.aead), nonce, plaintext)
                      IN  [val |-> Some(Framed(nonce, ciphertext)), err |-> NoErr,
                           panicked |-> FALSE,
                           calls |-> <<"aes.NewCipher", "cipher.NewGCM",
                                       "rand.Read", "aesgcm.Seal">>]

\* func (k *Key) Decrypt(ciphertext []byte) ([]byte, error); opened is the
\* (nonce, sealed) pair handed to aesgcm.Open, when it was called.
Decrypt(h, k, ciphertext) ==
    IF KeyBytes > Cap(h, k.raw)
    THEN [val |-> Nil, err |-> NoErr, panicked |-> TRUE, calls |-> <<>>, opened |-> Nil]
    ELSE
    LET c == NewCipher(CipherKey(h, k))
    IN  IF c.err # NoErr
        THEN [val |-> Nil, err |-> c.err, panicked |-> FALSE,
              calls |-> <<"aes.NewCipher">>, opened |-> Nil]
        ELSE LET g == NewGCM(Get(c.block))
             IN  IF g.err # NoErr
                 THEN [val |-> Nil, err |-> g.err, panicked |-> FALSE,
                       calls |-> <<"aes.NewCipher", "cipher.NewGCM">>, opened |-> Nil]
                 ELSE IF TooShort(ciphertext)
                 THEN [val |-> Nil, err |-> cipherTextError, panicked |-> FALSE,
                       calls |-> <<"aes.NewCipher", "cipher.NewGCM">>, opened |-> Nil]
                 ELSE IF NonceBytes > Len(ciphertext)
                 THEN \* ciphertext[:NonceBytes] past the slice's end panics.
                      [val |-> Nil, err |-> NoErr, panicked |-> TRUE,
                       calls |-> <<"aes.NewCipher", "cipher.NewGCM">>, opened |-> Nil]
                 ELSE LET nonce == SplitNonce(ciphertext)
                          sealed == SplitSealed(ciphertext)
                          r == ReturnOpened(Open(Get(g.aead), nonce, sealed))
                      IN  [val |-> r.val, err |-> r.err, panicked |-> FALSE,
                           calls |-> <<"aes.NewCipher", "cipher.NewGCM", "aesgcm.Open">>,
                           opened |-> Some([nonce |-> nonce, sealed |-> sealed])]

(***************************************************************************)
(* The state: the heap of backing arrays, the Key objects the callers      *)
(* hold, the slice headers they hold, the blobs they kept from successful  *)
(* Encrypt calls, and the call in progress with what it returns (NoCall    *)
(* between calls).                                                         *)
(***************************************************************************)
VARIABLES heap, keys, slices, blobs, last

vars == <<heap, keys, slices, blobs, last>>

\* The key material Key i holds.
Material(i) == Deref(heap, keys[i].raw)

\* The record of a call: the Key it was made on (0: none) with the material
\* read, the argument, the bytes rand.Read drew, the value and error returned.
Call(op, key, material, arg, draw, val, err, panicked, calls, opened) ==
    [op |-> op, key |-> key, material |-> material, arg |-> arg, draw |-> draw,
     val |-> val, err |-> err, panicked |-> panicked, calls |-> calls,
     opened |-> opened]

NoCall == Call("none", 0, Nil, Nil, Nil, Nil, NoErr, FALSE, <<>>, Nil)

Idle == last.op = "none"

(***************************************************************************)
(* The inputs of the callers.                                              *)
(***************************************************************************)
\* "hello"
Hello == <<104, 101, 108, 108, 111>>

\* Plaintexts: empty, shorter than a block, longer than a block.
LongText == Fill(BlockBytes + 1, 7)
PlainTexts == {<<>>, Hello, LongText}

\* The longest blob: nonce, longest plaintext, tag.
MaxBlobLen == NonceBytes + Len(LongText) + TagBytes

\* Lengths of the slices a caller makes: the ones FromBytes must tell apart.
SliceLens == {0, KeyBytes - 1, KeyBytes, KeyBytes + 1}

\* Positions (1-based) a caller writes at: the last key byte.
WritePositions == {KeyBytes}

\* Lengths a caller cuts a blob to before handing it to Decrypt.
CutLens == {0, 1, NonceBytes - 1, NonceBytes, NonceBytes + TagBytes - 1}

\* Text that is no multibase encoding: empty, an unregistered prefix, a
\* character outside the alphabet, a hex payload of odd length.
BadStrings == {<<>>, <<"!", "a">>, <<"b", "1">>, <<"f", "0">>}

\* The strings a caller hands to FromString: the material of a Key in every
\* registered base, the content of its slices in base32, the malformed ones.
CallerStrings ==
    {MbEncode(b, Material(i)).str : b \in Registered, i \in 1..Len(keys)}
        \cup {MbEncode(Base32, Deref(heap, s)).str : s \in slices}
        \cup BadStrings

\* The byte strings a caller hands to Decrypt: the blobs it kept, whole or
\* cut short, and the content of its slices.
DecryptInputs ==
    {b.blob : b \in blobs}
        \cup {Take(b.blob, n) : b \in blobs, n \in CutLens}
        \cup {Deref(heap, s) : s \in slices}

(***************************************************************************)
(* Init: nothing constructed.                                              *)
(***************************************************************************)
Init ==
    /\ heap = <<>>
    /\ keys = <<>>
    /\ slices = {}
    /\ blobs = {}
    /\ last = NoCall

(***************************************************************************)
(* The callers' own steps on byte slices.                                  *)
(***************************************************************************)
\* b := make([]byte, n): n zero bytes.
CallerMake(n) ==
    /\ Idle
    /\ Cardinality(slices) < MaxSlices
    /\ heap' = Alloc(heap, Fill(n, 0))
    /\ slices' = slices \cup {Slice(Len(heap) + 1, n)}
    /\ UNCHANGED <<keys, blobs, last>>

\* b[i-1] = v through a slice the caller holds that shares its array with a
\* Key (a write to any other array reaches no Key).
CallerWrite(s, i, v) ==
    /\ Idle
    /\ i <= s.len
    /\ \E k \in 1..Len(keys) : keys[k].raw.arr = s.arr
    /\ heap[s.arr][i] # v
    /\ heap' = [heap EXCEPT ![s.arr][i] = v]
    /\ UNCHANGED <<keys, slices, blobs, last>>

(***************************************************************************)
(* The calls of the package's API: each runs the whole function and leaves *)
(* what it returns in last.                                                *)
(***************************************************************************)
DoNewRandom(rd) ==
    /\ Idle
    /\ LET r == NewRandom(heap, rd)
       IN  /\ heap' = r.heap
           /\ last' = Call("NewRandom", 0, Nil, Nil, Some(rd.bytes), r.key, r.err,
                           FALSE, r.calls, Nil)
    /\ UNCHANGED <<keys, slices, blobs>>

DoNew(rd) ==
    /\ Idle
    /\ LET r == New(heap, rd)
       IN  /\ heap' = r.heap
           /\ last' = Call("New", 0, Nil, Nil, Some(rd.bytes), r.key, NoErr,
                           r.panicked, r.calls, Nil)
    /\ UNCHANGED <<keys, slices, blobs>>

DoFromBytes(s) ==
    /\ Idle
    /\ LET r == FromBytes(s)
       IN  last' = Call("FromBytes", 0, Nil, Some(s), Nil, r.key, r.err, FALSE, <<>>, Nil)
    /\ UNCHANGED <<heap, keys, slices, blobs>>

DoFromString ==
    /\ Idle
    /\ \E str \in CallerStrings :
          LET r == FromString(heap, str)
          IN  /\ heap' = r.heap
              /\ last' = Call("FromString", 0, Nil, Some(str), Nil, r.key, r.err,
                              FALSE, r.calls, Nil)
    /\ UNCHANGED <<keys, slices, blobs>>

DoBytes(i) ==
    /\ Idle
    /\ last' = Call("Bytes", i, Some(Material(i)), Nil, Nil, Some(Bytes(keys[i])),
                    NoErr, FALSE, <<>>, Nil)
    /\ UNCHANGED <<heap, keys, slices, blobs>>

DoMarshalBinary(i) ==
    /\ Idle
    /\ LET r == MarshalBinary(keys[i])
       IN  last' = Call("MarshalBinary", i, Some(Material(i)), Nil, Nil, r.val,
                        r.err, FALSE, <<>>, Nil)
    /\ UNCHANGED <<heap, keys, slices, blobs>>

DoString(i) ==
    /\ Idle
    /\ LET r == String(heap, keys[i])
       IN  last' = Call("String", i, Some(Material(i)), Nil, Nil, r.str, NoErr,
                        r.panicked, <<"mbase.Encode">>, Nil)
    /\ UNCHANGED <<heap, keys, slices, blobs>>

DoEncrypt(i, plaintext, rd) ==
    /\ Idle
    /\ LET r == Encrypt(heap, keys[i], plaintext, rd)
       IN  last' = Call("Encrypt", i, Some(Material(i)), Some(plaintext),
                        Some(rd.bytes), r.val, r.err, r.panicked, r.calls, Nil)
    /\ UNCHANGED <<heap, keys, slices, blobs>>

DoDecrypt(i, ciphertext) ==
    /\ Idle
    /\ LET r == Decrypt(heap, keys[i], ciphertext)
       IN  last' = Call("Decrypt", i, Some(Material(i)), Some(ciphertext), Nil,
                        r.val, r.err, r.panicked, r.calls, r.opened)
    /\ UNCHANGED <<heap, keys, slices, blobs>>

\* Decrypt, on the Key that sealed it, of kept blob b with one bit flipped.
DoDecryptFlipped(b, pos, bit) ==
    /\ pos <= Len(b.blob)
    /\ DoDecrypt(b.key, FlipBit(b.blob, pos, bit))

\* The constructors, and those that allocate the array of the Key they make.
Constructors == {"NewRandom", "New", "FromBytes", "FromString"}
Allocating == {"NewRandom", "New", "FromString"}

\* The call in progress made a Key.
MadeKey == last.op \in Constructors /\ last.val # Nil

\* The call returns.  The caller keeps the Key a constructor made while it
\* holds fewer than MaxKeys (a Key it drops is collected, with the array the
\* call allocated for it), holds the slice Bytes or MarshalBinary returned
\* while it holds fewer than MaxSlices, and keeps the blob Encrypt returned
\* while it holds fewer than room of them, with the material, plaintext and
\* draw of the call.
Return(room) ==
    /\ ~Idle
    /\ LET keep == MadeKey /\ Len(keys) < MaxKeys
       IN  /\ keys' = IF keep THEN Append(keys, Get(last.val)) ELSE keys
           /\ heap' = IF MadeKey /\ ~keep /\ last.op \in Allocating
                      THEN Take(heap, Len(heap) - 1)
                      ELSE heap
    /\ slices' = IF /\ last.op \in {"Bytes", "MarshalBinary"}
                    /\ Cardinality(slices \cup {Get(last.val)}) <= MaxSlices
                 THEN slices \cup {Get(last.val)}
                 ELSE slices
    /\ blobs' = IF /\ last.op = "Encrypt"
                   /\ last.val # Nil
                   /\ Cardinality(blobs) < room
                THEN blobs \cup {[key |-> last.key, material |-> Get(last.material),
                                  plaintext |-> Get(last.arg), draw |-> Get(last.draw),
                                  blob |-> Get(last.val)]}
                ELSE blobs
    /\ last' = NoCall

(***************************************************************************)
(* Spec: the life of Keys and of the slices that alias them.  Callers make *)
(* slices, write through them, construct Keys, read them back, encrypt     *)
(* "hello" and decrypt the content of their slices; blobs are not kept.    *)
(***************************************************************************)
Next ==
    \/ \E n \in SliceLens : CallerMake(n)
    \/ \E s \in slices, i \in WritePositions, v \in 0..MaxByte : CallerWrite(s, i, v)
    \/ \E rd \in RandRead(KeyBytes) : DoNewRandom(rd)
    \/ \E rd \in RandRead(KeyBytes) : DoNew(rd)
    \/ \E s \in slices : DoFromBytes(s)
    \/ DoFromString
    \/ \E i \in 1..Len(keys) : DoBytes(i)
    \/ \E i \in 1..Len(keys) : DoMarshalBinary(i)
    \/ \E i \in 1..Len(keys) : DoString(i)
    \/ \E i \in 1..Len(keys), rd \in RandRead(NonceBytes) : DoEncrypt(i, Hello, rd)
    \/ \E i \in 1..Len(keys), c \in DecryptInputs : DoDecrypt(i, c)
    \/ Return(0)

Spec == Init /\ [][Next]_vars

(***************************************************************************)
(* EnvelopeSpec: two Keys as the constructors left them, the first over    *)
(* zero bytes, the second differing from it in at most its last byte;      *)
(* callers encrypt, keep the blobs and decrypt them, whole or cut short,   *)
(* under either Key.                                                       *)
(***************************************************************************)
InitEnvelope ==
    /\ \E c \in 0..MaxByte :
          heap = <<Fill(KeyBytes, 0), [Fill(KeyBytes, 0) EXCEPT ![KeyBytes] = c]>>
    /\ keys = <<MkKey(Slice(1, KeyBytes)), MkKey(Slice(2, KeyBytes))>>
    /\ slices = {}
    /\ blobs = {}
    /\ last = NoCall

NextEnvelope ==
    \/ \E i \in 1..Len(keys), p \in PlainTexts, rd \in RandRead(NonceBytes) :
          DoEncrypt(i, p, rd)
    \/ \E i \in 1..Len(keys), c \in DecryptInputs : DoDecrypt(i, c)
    \/ Return(MaxBlobs)

EnvelopeSpec == InitEnvelope /\ [][NextEnvelope]_vars

(***************************************************************************)
(* TamperSpec: as EnvelopeSpec, but the caller keeps one blob, and every   *)
(* blob handed to Decrypt is that blob with one bit flipped, anywhere.     *)
(***************************************************************************)
NextTamper ==
    \/ \E i \in 1..Len(keys), p \in PlainTexts, rd \in RandRead(NonceBytes) :
          DoEncrypt(i, p, rd)
    \/ \E b \in blobs, pos \in 1..MaxBlobLen, bit \in 0..7 :
          DoDecryptFlipped(b, pos, bit)
    \/ Return(1)

TamperSpec == InitEnvelope /\ [][NextTamper]_vars

(***************************************************************************)
(* Properties of the Keys, checked under Spec.                             *)
(***************************************************************************)
\* The functions that return (value, error).
Fallible == {"NewRandom", "FromBytes", "FromString", "Encrypt", "Decrypt"}

\* No collaborator was called twice.
NoRetry(calls) == \A i, j \in 1..Len(calls) : calls[i] = calls[j] => i = j

\* The string str decodes, through FromString, to a Key over the bytes want.
DecodesTo(str, want) ==
    Get(last.arg) = str =>
        /\ last.err = NoErr
        /\ last.val # Nil
        /\ Deref(heap, Get(last.val).raw) = want

\* C2: the header and the 32 bytes of a Key a caller holds never change, by
\* any step of the package or of the callers: not by a write to the slice
\* handed to FromBytes, nor to the one Bytes or MarshalBinary returned.
C2_KeyImmutable ==
    [][\A i \in 1..Len(keys) :
          /\ keys'[i] = keys[i]
          /\ Deref(heap', keys'[i].raw) = Material(i)]_vars

\* C4: every Key, held or just made, is over exactly KeyBytes bytes, and
\* FromBytes makes a Key exactly when its argument has length KeyBytes, and
\* otherwise reports the invalid-key error.
C4_KeyLength ==
    /\ last.op = "FromBytes" =>
          /\ (last.val # Nil) <=> (Get(last.arg).len = KeyBytes)
          /\ (last.val = Nil) <=> (last.err = invalidKeyError)
          /\ (last.val # Nil) <=> (last.err = NoErr)
    /\ MadeKey =>
          /\ Get(last.val).raw.len = KeyBytes
          /\ Len(Deref(heap, Get(last.val).raw)) = KeyBytes
    /\ \A i \in 1..Len(keys) :
          /\ keys[i].raw.len = KeyBytes
          /\ Len(Material(i)) = KeyBytes

\* C4 seen: a caller holding a Key has FromBytes reject a slice of 33 bytes.
C4_Witness ==
    /\ Len(keys) = 1
    /\ last.op = "FromBytes"
    /\ Get(last.arg).len = KeyBytes + 1
    /\ last.val = Nil
    /\ last.err = invalidKeyError

\* C9: String gives the base32-lowercase multibase text of the Key's bytes
\* (prefix "b"); FromString of that text, and of the encoding of the same
\* bytes in any registered base, makes a Key over the same 32 bytes.
C9_TextRoundTrip ==
    /\ last.op = "String" =>
          /\ ~last.panicked
          /\ last.val # Nil
          /\ Get(last.val)[1] = "b"
          /\ \A j \in 2..Len(Get(last.val)) :
                Get(last.val)[j] \in {AlphaBase32[v] : v \in 1..Len(AlphaBase32)}
    /\ last.op = "FromString" =>
          \A i \in 1..Len(keys) :
             /\ ~String(heap, keys[i]).panicked
             /\ DecodesTo(Get(String(heap, keys[i]).str), Material(i))
             /\ \A b \in Registered :
                   (Get(last.arg) # <<>> /\ Get(last.arg)[1] = b) =>
                       DecodesTo(MbEncode(b, Material(i)).str, Material(i))

\* C9 seen: FromString of String() of a Key whose last byte was written to 1
\* made a Key over the same bytes.
C9_Witness ==
    /\ last.op = "FromString"
    /\ Len(keys) = 1
    /\ Material(1)[KeyBytes] = 1
    /\ Get(last.arg) = Get(String(heap, keys[1]).str)
    /\ last.val # Nil
    /\ Deref(heap, Get(last.val).raw) = Material(1)

\* C10: a call of NewRandom, FromBytes, FromString, Encrypt or Decrypt that
\* reports an error returns no value beside it, and none of them calls a
\* collaborator a second time.
C10_NoPartialResult ==
    last.op \in Fallible =>
        /\ last.err # NoErr => last.val = Nil
        /\ NoRetry(last.calls)

\* C10 seen: NewRandom reported the error of the random source, with no Key.
C10_Witness ==
    /\ last.op = "NewRandom"
    /\ last.err = randError
    /\ last.val = Nil
    /\ last.calls = <<"rand.Read">>

(***************************************************************************)
(* Properties of the envelope, checked under EnvelopeSpec.                 *)
(***************************************************************************)
\* The 12-byte nonce prefix of a blob.
NonceOf(blob) == Take(blob, NonceBytes)

\* blob is the wire format of plaintext sealed under material with nonce draw.
WireFormat(material, draw, plaintext, blob) ==
    /\ Len(blob) = NonceBytes + Len(plaintext) + TagBytes
    /\ NonceOf(blob) = draw
    /\ Drop(blob, NonceBytes) = Seal(material, draw, plaintext)

\* C1: Decrypt of a blob Encrypt returned, under the key material that
\* sealed it, succeeds and returns exactly the plaintext, for every
\* plaintext (the empty one too) and every nonce Encrypt drew.
C1_RoundTrip ==
    last.op = "Decrypt" =>
        \A b \in blobs :
            (last.arg = Some(b.blob) /\ last.material = Some(b.material)) =>
                /\ last.err = NoErr
                /\ ~last.panicked
                /\ last.val = Some(b.plaintext)

\* C1 seen: Decrypt returned "hello" from a blob sealed with a non-zero nonce.
C1_Witness ==
    /\ last.op = "Decrypt"
    /\ last.err = NoErr
    /\ last.val = Some(Hello)
    /\ \E b \in blobs :
          /\ last.arg = Some(b.blob)
          /\ last.material = Some(b.material)
          /\ b.plaintext = Hello
          /\ b.draw = Fill(NonceBytes, 1)

\* C3, as claimed: any two blobs made under one Key have different nonce
\* prefixes.
C3_NoncesNeverRepeat ==
    \A a, b \in blobs : (a # b /\ a.key = b.key) => NonceOf(a.blob) # NonceOf(b.blob)

\* C3, amended: the nonce prefix of every blob is the 12 bytes the random
\* source returned to the Encrypt call that made it, so two blobs made under
\* one Key have the same nonce prefix only where the random source returned
\* the same bytes to both calls.
C3_NonceIsItsOwnDraw ==
    \A a, b \in blobs :
        /\ NonceOf(a.blob) = a.draw
        /\ (a.key = b.key /\ a.draw # b.draw) => NonceOf(a.blob) # NonceOf(b.blob)

\* C3 seen: two blobs kept from one Key whose calls drew different bytes.
C3_Witness ==
    \E a, b \in blobs :
        /\ a.key = b.key
        /\ a.draw # b.draw
        /\ a.plaintext = b.plaintext
        /\ NonceOf(a.blob) # NonceOf(b.blob)

\* C6: Decrypt of a blob under key material other than the one that sealed
\* it fails with the authentication error and returns no plaintext.
C6_WrongKeyRejected ==
    last.op = "Decrypt" =>
        \A b \in blobs :
            (last.arg = Some(b.blob) /\ last.material # Some(b.material)) =>
                /\ last.err = authError
                /\ last.val = Nil
                /\ ~last.panicked

\* C6 seen: a blob sealed by the first Key was refused under the second.
C6_Witness ==
    /\ last.op = "Decrypt"
    /\ last.key = 2
    /\ last.err = authError
    /\ \E b \in blobs :
          /\ b.key = 1
          /\ last.arg = Some(b.blob)
          /\ last.material # Some(b.material)

\* C7: Decrypt of fewer than NonceBytes bytes fails with the malformed
\* cipher text error, returns no plaintext, and neither splits its argument
\* nor calls aesgcm.Open.
C7_ShortBlobRejected ==
    (last.op = "Decrypt" /\ Len(Get(last.arg)) < NonceBytes) =>
        /\ last.err = cipherTextError
        /\ last.val = Nil
        /\ ~last.panicked
        /\ last.opened = Nil
        /\ \A j \in 1..Len(last.calls) : last.calls[j] # "aesgcm.Open"

\* C7 seen: a blob cut to 11 bytes was refused as malformed.
C7_Witness ==
    /\ last.op = "Decrypt"
    /\ Len(Get(last.arg)) = NonceBytes - 1
    /\ last.err = cipherTextError
    /\ last.opened = Nil

\* C8: a blob Encrypt returns is 12 + len(P) + 16 bytes long, starts with
\* the nonce drawn for the call and continues with the output of Seal for
\* that key, nonce and plaintext; Decrypt hands Open the first 12 bytes of
\* its argument as the nonce and the rest as the sealed part.
C8_WireFormat ==
    /\ \A b \in blobs : WireFormat(b.material, b.draw, b.plaintext, b.blob)
    /\ (last.op = "Encrypt" /\ last.val # Nil) =>
          WireFormat(Get(last.material), Get(last.draw), Get(last.arg), Get(last.val))
    /\ (last.op = "Decrypt" /\ last.opened # Nil) =>
          /\ Get(last.opened).nonce = Take(Get(last.arg), NonceBytes)
          /\ Get(last.opened).sealed = Drop(Get(last.arg), NonceBytes)

\* C8 seen: the blob of the 17-byte plaintext, 45 bytes long, was split by
\* Decrypt.
C8_Witness ==
    /\ last.op = "Decrypt"
    /\ last.opened # Nil
    /\ \E b \in blobs :
          /\ b.plaintext = LongText
          /\ Len(b.blob) = MaxBlobLen
          /\ last.arg = Some(b.blob)

(***************************************************************************)
(* Tamper detection, checked under TamperSpec.                             *)
(***************************************************************************)
\* y is x with exactly one bit flipped.
SingleBitFlip(x, y) ==
    \E pos \in 1..Len(x), bit \in 0..7 : y = FlipBit(x, pos, bit)

\* C5: Decrypt, under the key material that sealed it, of a blob with any
\* single bit flipped (nonce, body or tag) fails with the authentication
\* error and returns no plaintext.
C5_TamperDetected ==
    last.op = "Decrypt" =>
        \A b \in blobs :
            (last.material = Some(b.material) /\ SingleBitFlip(b.blob, Get(last.arg))) =>
                /\ last.err = authError
                /\ last.val = Nil
                /\ ~last.panicked

\* C5 seen: a flip in the first byte of the body of "hello" was detected.
C5_Witness ==
    /\ last.op = "Decrypt"
    /\ last.err = authError
    /\ last.val = Nil
    /\ \E b \in blobs :
          /\ b.plaintext = Hello
          /\ last.arg = Some(FlipBit(b.blob, NonceBytes + 1, 0))

=============================================================================
